---- MODULE Spec2Model ----
(***************************************************************************)
(* A model of analyse_uao.py: the deduplicating search over log lines, the *)
(* command extractor get_AOARB_cmds, the three composite detectors, the    *)
(* metrics of a complete observation and the two CSV updates.              *)
(*                                                                         *)
(* Times are integers (seconds).  None is modelled by the value None for   *)
(* times and by the string "None" for the three-valued success flag.       *)
(* Error texts are sequences of tokens; '' is the empty sequence.          *)
(***************************************************************************)
EXTENDS Integers, Sequences, FiniteSets, TLC

VARIABLES
    pc,          \* the function that is running, "done" or "raised"
    stages,      \* the calls of the module top level still to be made after pc
    raw,         \* the lines the line source (logfile) delivers, in file order
    mindiff,     \* search's mindiff argument
    st,          \* the local variables of the running function
    arg,         \* the argument of the last call that returned
    ret,         \* the value the last call returned
    csv,         \* the rows of cmd_<side>.csv (<<>>: no file yet)
    datacsv,     \* the rows of data_<side>.csv (<<>>: no file yet)
    lastRun      \* for each (day, name) updated so far: the commands of the latest call

vars == <<pc, stages, raw, mindiff, st, arg, ret, csv, datacsv, lastRun>>

(***************************************************************************)
(* Bounds of the model.                                                    *)
(***************************************************************************)
T0 == 100            \* the time of the earliest log line
MaxTime == 3         \* raw line times are T0+1 .. T0+MaxTime
MaxRaw == 3          \* longest raw line stream of the search specification
MaxMindiff == 2      \* mindiff is 0 .. MaxMindiff
MaxCmds == 3         \* most commands of a log of the program run
MaxMid == 1          \* most commands between PresetAO and StartAO of an observation log
MaxRuns == 2         \* most calls of update_cmd_csv on one file
MaxCsvCmds == 2      \* most commands of one name found by a run
DayLen == 10         \* seconds of a day: day d starts at T0 + d * DayLen
MaxBracket == 3      \* most commands between StartAO and StopAO of an observation with offsets
MaxLines == 4        \* most lines handed to get_AOARB_cmds on its own
MaxObsTail == 3      \* most commands after the PresetAO of an observation
MaxPlain == 5        \* longest command list handed to detectOffsets twice

None == -1

Times == (T0 + 1) .. (T0 + MaxTime)

RECURSIVE SeqsUpTo(_, _)
SeqsUpTo(S, n) ==
    IF n = 0 THEN {<<>>}
    ELSE LET shorter == SeqsUpTo(S, n - 1)
         IN  shorter \cup {Append(s, x) : s \in {q \in shorter : Len(q) = n - 1}, x \in S}

(***************************************************************************)
(* search (lines 56-86).  A raw line is [t, m, name, args, cont]: t its    *)
(* timestamp (log_timestamp of field 3), m/name/args what the extractor    *)
(* will find in its text, cont whether field 4 matches the continuation    *)
(* pattern p (line 61).  An entry of found2 is the sequence of the indices *)
(* of the raw lines whose text it holds: the line stored first, then the   *)
(* lines whose continuation text was appended.                             *)
(***************************************************************************)
\* the t of a line with fewer than four fields, and of a line whose field 3
\* is not 'date time.microseconds'
NoField == -3
Garbled == -4

\* log_timestamp (lines 18-21): [exc, v], the exception raised or the time
log_timestamp(f) ==
    IF f.t = NoField THEN [exc |-> "IndexError", v |-> 0]
    ELSE IF f.t = Garbled THEN [exc |-> "ValueError", v |-> 0]
    ELSE [exc |-> "", v |-> f.t]

SearchInit ==
    [fn |-> "search", prev |-> 0, found2 |-> <<>>, keys |-> {}, order |-> <<>>, k |-> 1,
     exc |-> ""]

\* found2 is kept as a function over its key set `keys`; `order` is the order in
\* which the keys were inserted
Found2Put(s, now, v) ==
    [t \in (s.keys \cup {now}) |-> IF t = now THEN v ELSE s.found2[t]]

SearchLine(s, f, md) ==
    LET now == log_timestamp(f).v
        accepted == now - s.prev >= md
        f2 == IF ~accepted THEN s.found2
              ELSE IF now \notin s.keys THEN Found2Put(s, now, <<s.k>>)
              ELSE IF f.cont THEN Found2Put(s, now, Append(s.found2[now], s.k))
              ELSE s.found2
    IN  [fn |-> s.fn, exc |-> s.exc,
         prev |-> now,
         found2 |-> f2,
         keys |-> IF accepted THEN s.keys \cup {now} ELSE s.keys,
         order |-> IF accepted /\ now \notin s.keys THEN Append(s.order, now) ELSE s.order,
         k |-> s.k + 1]

RECURSIVE SortedKeys(_)
SortedKeys(S) ==
    IF S = {} THEN <<>>
    ELSE LET m == CHOOSE x \in S : \A y \in S : x <= y
         IN  <<m>> \o SortedKeys(S \ {m})

\* found3 with the keys in insertion order instead of sorted
Found3Unsorted(s) == [i \in 1 .. Len(s.order) |-> s.found2[s.order[i]]]

\* found3: the entries of found2 by ascending key
Found3(s) == [i \in 1 .. Cardinality(s.keys) |-> s.found2[SortedKeys(s.keys)[i]]]

(***************************************************************************)
(* Commands.  cls is the Python class; pause/resume are the positions, in  *)
(* the detector's input, of the commands an OffsetSequence or an           *)
(* ExposureSequence refers to (0: None); cmds is CompleteObs.cmds.         *)
(***************************************************************************)
Cmd(cls, name, args, start_time, end_time, success, errstr) ==
    [cls |-> cls, name |-> name, args |-> args, start_time |-> start_time,
     end_time |-> end_time, success |-> success, errstr |-> errstr,
     pause |-> 0, resume |-> 0, cmds |-> <<>>]

ArbCmd(name, args, start_time, end_time, success, errstr) ==
    Cmd("ArbCmd", name, args, start_time, end_time, success, errstr)

\* curCmd = None
NoCmd == Cmd("None", "", "", None, None, "None", <<>>)

(***************************************************************************)
(* get_AOARB_cmds (lines 280-396).  A line's m is the branch of the        *)
(* if/elif chain its text selects:                                         *)
(*   "start"     a start marker from which a name can (name # "") or       *)
(*               cannot (name = "") be extracted                           *)
(*   "startGLI"  a start marker with getLastImage                          *)
(*   "end", "endReady"  an end marker, without/with ReadyForStartAO        *)
(*   "exc", "illegal"   an [AOException] / Illegal command marker          *)
(*   "interv"    an Intervention: marker                                   *)
(*   "attr", "attrBad"  a magnitude/binning/speed marker whose number      *)
(*               parses / does not parse                                   *)
(*   "other"     none of these                                             *)
(* lastAcquireRef is the position the remembered command has or will have  *)
(* in cmds (0: None).  argsBound tells whether the function's local name   *)
(* `args` (assigned at line 323) has been bound.                           *)
(***************************************************************************)
ExcText == <<"AOException text">>
IllegalText == <<"Illegal command text">>

ExtractInit(lines) ==
    [fn |-> "get_AOARB_cmds", lines |-> lines, i |-> 1, cmds |-> <<>>, curCmd |-> NoCmd,
     lastAcquireRef |-> 0, argsBound |-> FALSE, exc |-> ""]

\* whether the body of the try block raises on this line
LineRaises(s, line) ==
    \/ line.m \in {"end", "endReady", "exc", "illegal", "interv", "attr"}
       /\ s.curCmd = NoCmd
    \/ line.m = "attrBad"

\* lines 388-390: `args` is a local of get_AOARB_cmds, so args.verbose reads
\* the local: unbound before the first start marker, the string '' after it.
\* The value is the exception that leaves the handler.
ExceptHandler(s) == IF s.argsBound THEN "AttributeError" ELSE "UnboundLocalError"

\* the patch applied to the command appended last instead of the remembered
\* AcquireRefAO
PatchLastCommand(s, t) ==
    IF s.cmds = <<>> THEN s ELSE [s EXCEPT !.cmds[Len(s.cmds)].end_time = t]

\* lines 351-353: patch the remembered AcquireRefAO, wherever it is by now
PatchLastAcquireRef(s, t) ==
    IF s.lastAcquireRef = 0 THEN s
    ELSE IF s.lastAcquireRef <= Len(s.cmds)
         THEN [s EXCEPT !.cmds[s.lastAcquireRef].end_time = t]
         ELSE [s EXCEPT !.curCmd.end_time = t]

\* lines 309-343
StartLine(s, line) ==
    LET flushed == IF s.curCmd # NoCmd
                   THEN [s EXCEPT !.cmds = Append(s.cmds, s.curCmd), !.curCmd = NoCmd]
                   ELSE s
        bound == [flushed EXCEPT !.argsBound = TRUE]
    IN  IF line.name = "" THEN bound
        ELSE [bound EXCEPT
                !.curCmd = ArbCmd(line.name, line.args, line.t, None, "None", <<>>),
                !.lastAcquireRef = IF line.name = "AcquireRefAO"
                                   THEN Len(bound.cmds) + 1
                                   ELSE bound.lastAcquireRef]

\* lines 345-354
EndLine(s, line) ==
    LET closed == [s EXCEPT !.curCmd.end_time = line.t,
                            !.curCmd.success = "True",
                            !.curCmd.errstr = <<>>]
    IN  IF line.m = "endReady" THEN PatchLastAcquireRef(closed, line.t) ELSE closed

\* the body of the try block on a line that does not raise
LineBody(s, line) ==
    CASE line.m = "start" -> StartLine(s, line)
      [] line.m \in {"end", "endReady"} -> EndLine(s, line)
      [] line.m = "exc" -> [s EXCEPT !.curCmd.errstr = ExcText, !.curCmd.success = "False"]
      [] line.m = "illegal" ->
            [s EXCEPT !.curCmd.errstr = IllegalText, !.curCmd.success = "False"]
      [] OTHER -> s

\* the result without the command still open at the end of the input
ExtractResultNoFlush(s) == s.cmds

\* line 392-396
ExtractResult(s) == IF s.curCmd # NoCmd THEN Append(s.cmds, s.curCmd) ELSE s.cmds

(***************************************************************************)
(* Python's operators on the three-valued success flag.                    *)
(***************************************************************************)
\* a and b
PyAnd(a, b) == IF a = "True" THEN b ELSE a

\* operator.and_(a, b): bool & bool, a TypeError when either side is None
BitAnd(a, b) ==
    IF a \in {"TypeError", "None"} \/ b = "None" THEN "TypeError"
    ELSE IF a = "True" /\ b = "True" THEN "True" ELSE "False"

\* ' '.join([e1, e2])
JoinSp(e1, e2) == e1 \o <<" ">> \o e2

(***************************************************************************)
(* detectOffsets (lines 596-679).  n is the 1-based loop index; args is    *)
(* the function's local `args`, Unbound until a Pause branch assigns it.   *)
(***************************************************************************)
Unbound == "<unbound>"

\* the composite with its two times taken in the other order
OffsetSequenceSwapped(pause, resume, args, start_time, end_time, success, errstr) ==
    [Cmd("OffsetSequence", "OffsetSequence", args, end_time, start_time, success, errstr)
        EXCEPT !.pause = pause, !.resume = resume]

OffsetSequence(pause, resume, args, start_time, end_time, success, errstr) ==
    [Cmd("OffsetSequence", "OffsetSequence", args, start_time, end_time, success, errstr)
        EXCEPT !.pause = pause, !.resume = resume]

ExposureSequence(resume, pause, args, start_time, end_time, success, errstr) ==
    [Cmd("ExposureSequence", "ExposureSequence", args, start_time, end_time, success, errstr)
        EXCEPT !.pause = pause, !.resume = resume]

OffsetsInit(cmds) ==
    [fn |-> "detectOffsets", cmds |-> cmds, n |-> 1, newCmds |-> <<>>, args |-> Unbound,
     exc |-> ""]

\* range(len(cmds)-2), line 606
OffsetsRange(cmds) == 1 .. (Len(cmds) - 2)

\* one iteration of the loop, lines 606-677
OffsetsIter(s) ==
    LET cmds == s.cmds
        n == s.n
        c0 == cmds[n]
        c1 == cmds[n + 1]
        c2 == cmds[n + 2]
        emit(cmd, args) ==
            [s EXCEPT !.newCmds = s.newCmds \o <<cmd, c0>>, !.args = args, !.n = n + 1]
    IN  IF c0.name = "Pause" /\ c1.name = "OffsetXY" /\ c2.name = "Resume" THEN
            LET success == BitAnd(BitAnd(c0.success, c1.success), c2.success)
                errstr == JoinSp(JoinSp(c0.errstr, c1.errstr), c2.errstr)
            IN  IF success = "TypeError" THEN [s EXCEPT !.exc = "TypeError"]
                ELSE emit(OffsetSequence(n, n + 2, c1.args, c0.start_time, c2.end_time,
                                         success, errstr), c1.args)
        ELSE IF c0.name = "Pause" /\ c1.name = "OffsetXY" THEN
            LET success == c0.success = "True" /\ c1.success = "True"
                errstr == IF success THEN <<"Resume was not sent">>
                          ELSE JoinSp(c0.errstr, c1.errstr)
            IN  emit(OffsetSequence(n, 0, c1.args, c0.start_time, c1.end_time,
                                    "False", errstr), c1.args)
        ELSE IF c0.name = "Pause" /\ c1.name = "Resume" THEN
            emit(OffsetSequence(n, n + 1, "", c0.start_time, c1.end_time,
                                PyAnd(c0.success, c1.success),
                                JoinSp(c0.errstr, c1.errstr)), "")
        ELSE IF c0.name = "Pause" THEN
            LET forced == c0.success = "True"
            IN  emit(OffsetSequence(n, 0, "", c0.start_time, c0.end_time,
                                    IF forced THEN "False" ELSE c0.success,
                                    IF forced THEN <<"no OffsetXY or Resume">> ELSE c0.errstr),
                     "")
        ELSE IF c0.name = "Resume" /\ c1.name = "Pause" THEN
            IF s.args = Unbound THEN [s EXCEPT !.exc = "UnboundLocalError"]
            ELSE emit(ExposureSequence(n, n + 1, s.args, c0.start_time, c0.end_time,
                                       PyAnd(c0.success, c1.success),
                                       JoinSp(c0.errstr, c1.errstr)), s.args)
        ELSE [s EXCEPT !.newCmds = Append(s.newCmds, c0), !.n = n + 1]

\* lines 602-603 and 679
OffsetsResult(s) == IF Len(s.cmds) < 3 THEN s.cmds ELSE s.newCmds

\* the early return of line 602 (the range is empty then) or the end of the loop
OffsetsLoopDone(s) == s.n \notin OffsetsRange(s.cmds)

(***************************************************************************)
(* detectAcquires (lines 539-593).                                         *)
(***************************************************************************)
SubCommands == {"CenterPupils", "CenterStar", "CloseLoop", "OptimizeGain",
                "ReCloseLoop", "getLastImage", "ApplyOpticalGain"}

NotCompleted == " Command not completed"

AcquiresInit(cmds) ==
    [fn |-> "detectAcquires", cmds |-> cmds, i |-> 1, newCmds |-> <<>>, inAcquire |-> FALSE,
     acquireCmd |-> NoCmd, acquireDone |-> FALSE, exc |-> ""]

\* lines 557-559, 570-572, 575-577
FoldSub(acquireCmd, cmd) ==
    [acquireCmd EXCEPT !.success = PyAnd(acquireCmd.success, cmd.success),
                       !.errstr = acquireCmd.errstr \o cmd.errstr,
                       !.end_time = cmd.end_time]

\* one iteration of the loop, lines 546-591
AcquiresIter(s) ==
    LET cmd == s.cmds[s.i]
        next == [s EXCEPT !.i = s.i + 1, !.newCmds = Append(s.newCmds, cmd)]
    IN  IF cmd.name = "AcquireRefAO" THEN
            [next EXCEPT !.inAcquire = TRUE,
                         !.acquireCmd = ArbCmd("Acquire", "", cmd.start_time, None,
                                               cmd.success, cmd.errstr),
                         !.acquireDone = FALSE]
        ELSE IF s.inAcquire THEN
            IF cmd.name = "CheckFlux" \/ cmd.name \in SubCommands THEN
                [next EXCEPT !.acquireCmd = FoldSub(s.acquireCmd, cmd)]
            ELSE IF cmd.name = "Done" THEN
                LET acq == FoldSub(s.acquireCmd, cmd)
                IN  IF cmd.success = "True"
                    THEN [next EXCEPT !.acquireCmd = acq, !.acquireDone = TRUE,
                                      !.newCmds = s.newCmds \o <<acq, cmd>>,
                                      !.inAcquire = FALSE]
                    ELSE [next EXCEPT !.acquireCmd = acq, !.acquireDone = TRUE]
            ELSE IF ~s.acquireDone THEN
                LET acq == [s.acquireCmd EXCEPT
                                !.success = "False",
                                !.errstr = Append(s.acquireCmd.errstr, NotCompleted)]
                IN  [next EXCEPT !.acquireCmd = acq,
                                 !.newCmds = s.newCmds \o <<acq, cmd>>,
                                 !.inAcquire = FALSE]
            ELSE next
        ELSE next

(***************************************************************************)
(* ArbCmd.details and is_instrument_preset (lines 201-208, 234-253).  The  *)
(* args of a PresetAO are one of the texts below; each also holds a        *)
(* wfsSpec, an expectedStarMagnitude and a mode that match their patterns. *)
(***************************************************************************)
PresetTexts == {"roCoordX = 0.0, roCoordY = 0.0", "roCoordX = 1.5, roCoordY = 0.0",
                "roCoordX = 0.0, roCoordY = -2.5", "roCoordX = 0, roCoordY = 0"}

\* the text that follows 'roCoordX = ' / 'roCoordY = '
RefXText(args) ==
    CASE args = "roCoordX = 0.0, roCoordY = 0.0" -> "0.0"
      [] args = "roCoordX = 1.5, roCoordY = 0.0" -> "1.5"
      [] args = "roCoordX = 0.0, roCoordY = -2.5" -> "0.0"
      [] args = "roCoordX = 0, roCoordY = 0" -> "0"
      [] OTHER -> ""

RefYText(args) ==
    CASE args = "roCoordX = 0.0, roCoordY = 0.0" -> "0.0"
      [] args = "roCoordX = 1.5, roCoordY = 0.0" -> "0.0"
      [] args = "roCoordX = 0.0, roCoordY = -2.5" -> "-2.5"
      [] args = "roCoordX = 0, roCoordY = 0" -> "0"
      [] OTHER -> ""

\* floatPattern (line 164) is '[-+]?\d*\.\d+|d+': a number with a decimal point,
\* or a run of the letter d; it finds nothing in a number written without a point
FloatPatternFinds(text) == text \in {"0.0", "1.5", "-2.5"}

\* float(text), in tenths
FloatOf(text) ==
    CASE text = "0.0" -> 0
      [] text = "1.5" -> 15
      [] text = "-2.5" -> -25
      [] text = "0" -> 0
      [] OTHER -> 0

\* details() sets refX and refY only when every pattern of lines 235-239 is found
DetailsSetsRef(cmd) ==
    /\ cmd.name = "PresetAO"
    /\ FloatPatternFinds(RefXText(cmd.args))
    /\ FloatPatternFinds(RefYText(cmd.args))

\* "True", "False", or "AttributeError" when refX was never set
is_instrument_preset(cmd) ==
    IF cmd.name # "PresetAO" THEN "False"
    ELSE IF ~DetailsSetsRef(cmd) THEN "AttributeError"
    ELSE IF FloatOf(RefXText(cmd.args)) # 0 \/ FloatOf(RefYText(cmd.args)) # 0
         THEN "True" ELSE "False"

(***************************************************************************)
(* detectCompleteObs (lines 495-536).                                      *)
(***************************************************************************)
CompleteObs(start_time) == Cmd("CompleteObs", "CompleteObs", "", start_time, None, "None", <<>>)

ObsInit(cmds) ==
    [fn |-> "detectCompleteObs", cmds |-> cmds, i |-> 1, newCmds |-> <<>>,
     inObs |-> FALSE, inPreset |-> FALSE,
     obsCmd |-> NoCmd, exc |-> ""]

\* the loop body without the Cancel branch of lines 513-515
ObsIterNoCancel(s) ==
    LET cmd == s.cmds[s.i]
        next == [s EXCEPT !.i = s.i + 1, !.newCmds = Append(s.newCmds, cmd)]
        added == [s.obsCmd EXCEPT !.cmds = Append(s.obsCmd.cmds, cmd)]
        instr == is_instrument_preset(cmd)
    IN  IF cmd.name = "PresetAO" /\ instr = "AttributeError" THEN
            [s EXCEPT !.exc = "AttributeError"]
        ELSE IF cmd.name = "PresetAO" /\ instr = "True" THEN
            [next EXCEPT !.inPreset = TRUE, !.inObs = FALSE,
                         !.obsCmd = [CompleteObs(cmd.start_time) EXCEPT !.cmds = <<cmd>>]]
        ELSE IF s.inObs THEN
            IF cmd.name \in {"Stop", "StopAO"} THEN
                LET obs == [added EXCEPT !.end_time = cmd.end_time, !.success = "True"]
                IN  [next EXCEPT !.obsCmd = obs, !.newCmds = s.newCmds \o <<obs, cmd>>,
                                 !.inObs = FALSE]
            ELSE [next EXCEPT !.obsCmd = added]
        ELSE IF s.inPreset THEN
            IF cmd.name \in {"StartAO", "Start AO"}
            THEN [next EXCEPT !.obsCmd = added, !.inPreset = FALSE, !.inObs = TRUE]
            ELSE [next EXCEPT !.obsCmd = added]
        ELSE next

\* one iteration of the loop, lines 504-534
ObsIter(s) ==
    LET cmd == s.cmds[s.i]
        next == [s EXCEPT !.i = s.i + 1, !.newCmds = Append(s.newCmds, cmd)]
        added == [s.obsCmd EXCEPT !.cmds = Append(s.obsCmd.cmds, cmd)]
        instr == is_instrument_preset(cmd)
    IN  IF cmd.name = "PresetAO" /\ instr = "AttributeError" THEN
            [s EXCEPT !.exc = "AttributeError"]
        ELSE IF cmd.name = "PresetAO" /\ instr = "True" THEN
            [next EXCEPT !.inPreset = TRUE, !.inObs = FALSE,
                         !.obsCmd = [CompleteObs(cmd.start_time) EXCEPT !.cmds = <<cmd>>]]
        ELSE IF s.inPreset /\ cmd.name = "Cancel" THEN
            [next EXCEPT !.inPreset = FALSE, !.inObs = FALSE]
        ELSE IF s.inObs THEN
            IF cmd.name \in {"Stop", "StopAO"} THEN
                LET obs == [added EXCEPT !.end_time = cmd.end_time, !.success = "True"]
                IN  [next EXCEPT !.obsCmd = obs, !.newCmds = s.newCmds \o <<obs, cmd>>,
                                 !.inObs = FALSE]
            ELSE [next EXCEPT !.obsCmd = added]
        ELSE IF s.inPreset THEN
            IF cmd.name \in {"StartAO", "Start AO"}
            THEN [next EXCEPT !.obsCmd = added, !.inPreset = FALSE, !.inObs = TRUE]
            ELSE [next EXCEPT !.obsCmd = added]
        ELSE next

(***************************************************************************)
(* The metrics of a CompleteObs (lines 447-450, 479-488).  A metric is     *)
(* [exc, v]: the exception it raises ("": none) and otherwise its value.   *)
(***************************************************************************)
Val(v) == [exc |-> "", v |-> v]
Exc(e) == [exc |-> e, v |-> 0]

\* a - b on times, a TypeError when either is None
Minus(a, b) == IF a = None \/ b = None THEN Exc("TypeError") ELSE Val(a - b)

\* the duration of the whole observation instead of that of its setup
setup_duration_total(obs) == Minus(obs.end_time, obs.start_time)

setup_duration(obs) ==
    LET starts == SelectSeq(obs.cmds, LAMBDA x : x.name \in {"StartAO", "Start AO"})
    IN  IF starts = <<>> THEN Exc("IndexError")
        ELSE Minus(starts[1].end_time, obs.start_time)

\* the loop of lines 482-487 from position i on; pause_time is Unbound (as a
\* time: -2) until a Pause was seen
UnboundTime == -2

RECURSIVE OffsetsOverheadFrom(_, _, _, _)
OffsetsOverheadFrom(cmds, i, pause_time, offsets_time) ==
    IF i > Len(cmds) THEN Val(offsets_time)
    ELSE LET cmd == cmds[i]
             pt == IF cmd.name \in {"PauseAO", "Pause"} THEN cmd.start_time ELSE pause_time
         IN  IF cmd.name \in {"ResumeAO", "Resume"} THEN
                 IF pt = UnboundTime THEN Exc("UnboundLocalError")
                 ELSE IF Minus(cmd.end_time, pt).exc # "" THEN Exc("TypeError")
                 ELSE OffsetsOverheadFrom(cmds, i + 1, pt, offsets_time + (cmd.end_time - pt))
             ELSE OffsetsOverheadFrom(cmds, i + 1, pt, offsets_time)

offsets_overhead(obs) == OffsetsOverheadFrom(obs.cmds, 1, UnboundTime, 0)

\* lines 437-440
total_time(obs) ==
    IF obs.end_time = None \/ obs.start_time = None THEN 0 ELSE obs.end_time - obs.start_time

\* the second loop of ao_setup_overhead (lines 459-473) from position i on
RECURSIVE AoSetupFrom(_, _, _, _)
AoSetupFrom(cmds, i, is_intervention, ao_time) ==
    IF i > Len(cmds) THEN 0
    ELSE LET cmd == cmds[i]
             skipped == \/ cmd.name \in {"Acquire", "Done"}
                        \/ cmd.end_time = None \/ cmd.start_time = None
                        \/ is_intervention /\ cmd.name = "AcquireRefAO"
             t == ao_time + (cmd.end_time - cmd.start_time)
         IN  IF skipped THEN AoSetupFrom(cmds, i + 1, is_intervention, ao_time)
             ELSE IF cmd.name \in {"StartAO", "Start AO"} THEN t
             ELSE AoSetupFrom(cmds, i + 1, is_intervention, t)

\* lines 452-473
ao_setup_overhead(obs) ==
    LET is_intervention ==
            \E i \in 1 .. Len(obs.cmds) :
                obs.cmds[i].name \in {"CenterStar", "CenterPupils", "CheckFlux", "CloseLoop"}
    IN  AoSetupFrom(obs.cmds, 1, is_intervention, 0)

\* lines 442-445: setup_duration() is called before offsets_overhead()
total_open_time(obs) ==
    IF setup_duration(obs).exc # "" THEN Exc(setup_duration(obs).exc)
    ELSE IF offsets_overhead(obs).exc # "" THEN Exc(offsets_overhead(obs).exc)
    ELSE Val(total_time(obs) - setup_duration(obs).v - offsets_overhead(obs).v)

\* lines 475-477
telescope_overhead(obs) ==
    IF setup_duration(obs).exc # "" THEN Exc(setup_duration(obs).exc)
    ELSE Val(setup_duration(obs).v - ao_setup_overhead(obs))

(***************************************************************************)
(* Calls and returns.  The module top level (lines 871-874) calls          *)
(* get_AOARB_cmds, which first calls search (line 282), then the three     *)
(* detectors, each on the result of the one before.                        *)
(***************************************************************************)
Pipeline == <<"get_AOARB_cmds", "detectOffsets", "detectAcquires", "detectCompleteObs">>

\* the lines search hands to get_AOARB_cmds: an entry's text starts with the
\* text of the raw line stored first
LinesOfEntries(lines, found3) == [i \in 1 .. Len(found3) |-> lines[found3[i][1]]]

\* the locals of function f called on value v
Locals(f, v) ==
    CASE f = "get_AOARB_cmds" -> ExtractInit(LinesOfEntries(raw, v))
      [] f = "detectOffsets" -> OffsetsInit(v)
      [] f = "detectAcquires" -> AcquiresInit(v)
      [] f = "detectCompleteObs" -> ObsInit(v)

\* the running function returns value, having been called on a
Return(a, value) ==
    /\ arg' = a
    /\ ret' = value
    /\ IF stages = <<>>
       THEN pc' = "done" /\ stages' = stages /\ st' = st
       ELSE pc' = Head(stages) /\ stages' = Tail(stages) /\ st' = Locals(Head(stages), value)
    /\ UNCHANGED <<raw, mindiff, csv, datacsv, lastRun>>

\* exception e leaves the running function; nothing up to the top level catches it
Raise(e) ==
    /\ pc' = "raised"
    /\ st' = [st EXCEPT !.exc = e]
    /\ stages' = <<>>
    /\ UNCHANGED <<raw, mindiff, arg, ret, csv, datacsv, lastRun>>

Iterate(next) ==
    /\ st' = next
    /\ UNCHANGED <<pc, stages, raw, mindiff, arg, ret, csv, datacsv, lastRun>>

\* search: the body of the loop for one line (lines 62-78)
SearchStep ==
    /\ pc = "search"
    /\ st.k <= Len(raw)
    /\ log_timestamp(raw[st.k]).exc = ""
    /\ Iterate(SearchLine(st, raw[st.k], mindiff))

\* search: line 63 raises; the call is in no try block, here or in the callers
\* (lines 282, 904)
SearchRaise ==
    /\ pc = "search"
    /\ st.k <= Len(raw)
    /\ log_timestamp(raw[st.k]).exc # ""
    /\ Raise(log_timestamp(raw[st.k]).exc)

\* search: lines 80-86
SearchReturn ==
    /\ pc = "search"
    /\ st.k > Len(raw)
    /\ Return(raw, Found3(st))

\* get_AOARB_cmds: one line whose processing does not raise
ExtractStep ==
    /\ pc = "get_AOARB_cmds"
    /\ st.i <= Len(st.lines)
    /\ ~LineRaises(st, st.lines[st.i])
    /\ Iterate([LineBody(st, st.lines[st.i]) EXCEPT !.i = st.i + 1])

\* get_AOARB_cmds: one line whose processing raises, and the handler of line 388
ExtractRaise ==
    /\ pc = "get_AOARB_cmds"
    /\ st.i <= Len(st.lines)
    /\ LineRaises(st, st.lines[st.i])
    /\ Raise(ExceptHandler(st))

ExtractReturn ==
    /\ pc = "get_AOARB_cmds"
    /\ st.i > Len(st.lines)
    /\ Return(st.lines, ExtractResult(st))

OffsetsStep ==
    /\ pc = "detectOffsets"
    /\ ~OffsetsLoopDone(st)
    /\ OffsetsIter(st).exc = ""
    /\ Iterate(OffsetsIter(st))

OffsetsRaise ==
    /\ pc = "detectOffsets"
    /\ ~OffsetsLoopDone(st)
    /\ OffsetsIter(st).exc # ""
    /\ Raise(OffsetsIter(st).exc)

OffsetsReturn ==
    /\ pc = "detectOffsets"
    /\ OffsetsLoopDone(st)
    /\ Return(st.cmds, OffsetsResult(st))

AcquiresStep ==
    /\ pc = "detectAcquires"
    /\ st.i <= Len(st.cmds)
    /\ Iterate(AcquiresIter(st))

AcquiresReturn ==
    /\ pc = "detectAcquires"
    /\ st.i > Len(st.cmds)
    /\ Return(st.cmds, st.newCmds)

ObsStep ==
    /\ pc = "detectCompleteObs"
    /\ st.i <= Len(st.cmds)
    /\ ObsIter(st).exc = ""
    /\ Iterate(ObsIter(st))

ObsRaise ==
    /\ pc = "detectCompleteObs"
    /\ st.i <= Len(st.cmds)
    /\ ObsIter(st).exc # ""
    /\ Raise(ObsIter(st).exc)

ObsReturn ==
    /\ pc = "detectCompleteObs"
    /\ st.i > Len(st.cmds)
    /\ Return(st.cmds, st.newCmds)

(***************************************************************************)
(* The search on its own: any short line stream, in any order.             *)
(***************************************************************************)
RawLine(t, m, name, args, cont) ==
    [t |-> t, m |-> m, name |-> name, args |-> args, cont |-> cont]

SearchLines ==
    {RawLine(t, "other", "", "", c) : t \in Times, c \in BOOLEAN}
    \cup {RawLine(t, "other", "", "", FALSE) : t \in {NoField, Garbled}}

InitSearch ==
    /\ pc = "search"
    /\ stages = <<>>
    /\ raw \in SeqsUpTo(SearchLines, MaxRaw)
    /\ mindiff \in 0 .. MaxMindiff
    /\ st = SearchInit
    /\ arg = <<>>
    /\ ret = <<>>
    /\ csv = <<>>
    /\ datacsv = <<>>
    /\ lastRun = <<>>

NextSearch == SearchStep \/ SearchRaise \/ SearchReturn

SpecSearch == InitSearch /\ [][NextSearch]_vars

(***************************************************************************)
(* The program run (lines 871-874) on the AOARB log of a day.  Three kinds *)
(* of log:                                                                 *)
(*   - any short stream of start and end markers, in any order of time;    *)
(*   - a log in time order of up to MaxCmds requests, each followed or not *)
(*     by a closing line: request i is logged at T0 + 3(i-1), its closing  *)
(*     line two seconds later;                                             *)
(*   - such a log of an observation: a PresetAO, up to MaxMid commands, a  *)
(*     StartAO, a StopAO and two more requests.                            *)
(***************************************************************************)
UnorderedMarkers ==
    {RawLine(t, "start", n, "", FALSE) : t \in Times, n \in {"Pause", "AcquireRefAO"}}
    \cup {RawLine(t, m, "", "", FALSE) : t \in Times, m \in {"end", "endReady"}}

UnorderedLogs == SeqsUpTo(UnorderedMarkers, MaxRaw)

\* a request and the line that closes it ("none": no such line)
Block(name, args, close) == [name |-> name, args |-> args, close |-> close]

ArgsOf(name) ==
    CASE name = "OffsetXY" -> {"1.0,2.0"}
      [] name = "PresetAO" -> PresetTexts
      [] OTHER -> {""}

BlocksOf(names, closes) ==
    {Block(n, a, c) : n \in names, a \in UNION {ArgsOf(x) : x \in names}, c \in closes}

Blocks(names, closes) == {b \in BlocksOf(names, closes) : b.args \in ArgsOf(b.name)}

RECURSIVE LinesOfBlocks(_, _)
LinesOfBlocks(blocks, i) ==
    IF i > Len(blocks) THEN <<>>
    ELSE LET b == blocks[i]
             t == T0 + 3 * (i - 1)
             request == RawLine(t, "start", b.name, b.args, FALSE)
         IN  (IF b.close = "none" THEN <<request>>
              ELSE <<request, RawLine(t + 2, b.close, "", "", FALSE)>>)
             \o LinesOfBlocks(blocks, i + 1)

OrderedLogs ==
    {LinesOfBlocks(bs, 1) :
        bs \in SeqsUpTo(Blocks({"Pause", "OffsetXY", "Resume", "AcquireRefAO", "Done", "OffsetZ"},
                               {"none", "end"}), MaxCmds)}

ObservationLogs ==
    {LinesOfBlocks(<<p>> \o mid \o <<sa, so>> \o tail, 1) :
        p \in Blocks({"PresetAO"}, {"end"}),
        mid \in SeqsUpTo(Blocks({"AcquireRefAO", "Pause", "Resume"}, {"none", "end"}), MaxMid),
        sa \in Blocks({"StartAO"}, {"none", "end", "endReady"}),
        so \in Blocks({"StopAO", "OffsetZ"}, {"none", "end", "exc"}),
        tail \in {<<x, y>> : x \in Blocks({"Pause", "OffsetZ"}, {"end"}),
                             y \in Blocks({"OffsetZ", "PresetAO"}, {"none"})}}

Init ==
    /\ pc = "search"
    /\ stages = Pipeline
    /\ raw \in UnorderedLogs \cup OrderedLogs \cup ObservationLogs
    /\ mindiff = 0
    /\ st = SearchInit
    /\ arg = <<>>
    /\ ret = <<>>
    /\ csv = <<>>
    /\ datacsv = <<>>
    /\ lastRun = <<>>

Next ==
    \/ SearchStep
    \/ SearchReturn
    \/ ExtractStep
    \/ ExtractRaise
    \/ ExtractReturn
    \/ OffsetsStep
    \/ OffsetsRaise
    \/ OffsetsReturn
    \/ AcquiresStep
    \/ AcquiresReturn
    \/ ObsStep
    \/ ObsRaise
    \/ ObsReturn

Spec == Init /\ [][Next]_vars

(***************************************************************************)
(* Each detector on its own, on any short command list.  Command i of the  *)
(* list is what get_AOARB_cmds makes of request i of an ordered log:       *)
(* started at T0 + 3(i-1) and closed by an end marker, by an exception     *)
(* marker, or not at all.                                                  *)
(***************************************************************************)
CmdOfBlock(b, i) ==
    LET t == T0 + 3 * (i - 1)
    IN  CASE b.close \in {"end", "endReady"} -> ArbCmd(b.name, b.args, t, t + 2, "True", <<>>)
          [] b.close = "exc" -> ArbCmd(b.name, b.args, t, None, "False", ExcText)
          [] OTHER -> ArbCmd(b.name, b.args, t, None, "None", <<>>)

CmdsOfBlocks(bs) == [i \in 1 .. Len(bs) |-> CmdOfBlock(bs[i], i)]

Closes == {"none", "end", "exc"}

InitDetector(f, names) ==
    /\ pc = f
    /\ stages = <<>>
    /\ raw = <<>>
    /\ mindiff = 0
    /\ \E bs \in SeqsUpTo(Blocks(names, Closes), MaxCmds) : st = Locals(f, CmdsOfBlocks(bs))
    /\ arg = <<>>
    /\ ret = <<>>
    /\ csv = <<>>
    /\ datacsv = <<>>
    /\ lastRun = <<>>

InitOffsets == InitDetector("detectOffsets", {"Pause", "OffsetXY", "Resume", "OffsetZ"})

NextOffsets == OffsetsStep \/ OffsetsRaise \/ OffsetsReturn

SpecOffsets == InitOffsets /\ [][NextOffsets]_vars

InitAcquires ==
    InitDetector("detectAcquires", {"AcquireRefAO", "CheckFlux", "CenterStar", "Done", "OffsetZ"})

NextAcquires == AcquiresStep \/ AcquiresReturn

SpecAcquires == InitAcquires /\ [][NextAcquires]_vars

InitObs ==
    InitDetector("detectCompleteObs", {"PresetAO", "StartAO", "StopAO", "Cancel", "OffsetZ"})

NextObs == ObsStep \/ ObsRaise \/ ObsReturn

SpecObs == InitObs /\ [][NextObs]_vars

(***************************************************************************)
(* update_cmd_csv (lines 769-809).  The file is the sequence of its rows,  *)
(* the header row first; <<>> when the file does not exist.  A row is      *)
(* <<day, hour, command, elapsed>>, all text.                              *)
(***************************************************************************)
Days == <<"20200101", "20200102">>

DayIndex(day) == CHOOSE d \in 1 .. Len(Days) : Days[d] = day

\* dayStr (lines 29-30) and hourStr (lines 32-33)
dayStr(t) == Days[((t - T0) \div DayLen) + 1]
hourStr(t) == ToString((t - T0) % DayLen)

hdr == <<"day", "hour", "command", "elapsed">>

\* lines 796-799
RowOfCmd(cmd) ==
    <<dayStr(cmd.start_time), hourStr(cmd.start_time), cmd.name,
      ToString(cmd.end_time - cmd.start_time)>>

\* lines 790-800: the rows of the successful, fully timed commands, in order
RowsOfCmds(cmds) ==
    LET kept == SelectSeq(cmds, LAMBDA c : c.success = "True" /\ c.end_time # None
                                           /\ c.start_time # None)
    IN  [i \in 1 .. Len(kept) |-> RowOfCmd(kept[i])]

\* data.sort(key=lambda x: x[0]), line 802: a stable sort by day
RECURSIVE SortByDay(_)
SortByDay(data) ==
    IF data = <<>> THEN <<>>
    ELSE LET first == CHOOSE d \in 1 .. Len(Days) :
                        /\ \E i \in 1 .. Len(data) : data[i][1] = Days[d]
                        /\ \A i \in 1 .. Len(data) : DayIndex(data[i][1]) >= d
         IN  SelectSeq(data, LAMBDA r : r[1] = Days[first])
             \o SortByDay(SelectSeq(data, LAMBDA r : r[1] # Days[first]))

\* the file after update_cmd_csv(cmds) run with args.day = day
update_cmd_csv(file, day, cmds) ==
    IF Len(cmds) < 1 THEN file
    ELSE LET others == SelectSeq(file, LAMBDA row : row[1] # day \/ row[3] # cmds[1].name)
             data == SelectSeq(others, LAMBDA row : row[1] # "day")
         IN  <<hdr>> \o SortByDay(data \o RowsOfCmds(cmds))

\* the commands named name that a run for day found: command i started at
\* 3(i-1) seconds into the day
CsvCmds(day, bs) ==
    [i \in 1 .. Len(bs) |->
        LET c == CmdOfBlock(bs[i], i)
            shift == (DayIndex(day) - 1) * DayLen
        IN  [c EXCEPT !.start_time = c.start_time + shift,
                      !.end_time = IF c.end_time = None THEN None ELSE c.end_time + shift]]

CsvNames == {"CenterStar", "OffsetXY"}

\* one call of lines 878-885, in a run of the program for day
UpdateCmdCsv ==
    /\ pc = "update_cmd_csv"
    /\ st.runs < MaxRuns
    /\ \E d \in 1 .. Len(Days), name \in CsvNames :
         \E bs \in SeqsUpTo(Blocks({name}, Closes), MaxCsvCmds) :
            LET cmds == CsvCmds(Days[d], bs)
            IN  /\ csv' = update_cmd_csv(csv, Days[d], cmds)
                /\ lastRun' = [k \in DOMAIN lastRun \cup {<<Days[d], name>>} |->
                                  IF k = <<Days[d], name>> THEN cmds ELSE lastRun[k]]
    /\ st' = [st EXCEPT !.runs = st.runs + 1]
    /\ UNCHANGED <<pc, stages, raw, mindiff, arg, ret, datacsv>>

InitCsv ==
    /\ pc = "update_cmd_csv"
    /\ stages = <<>>
    /\ raw = <<>>
    /\ mindiff = 0
    /\ st = [fn |-> "update_cmd_csv", runs |-> 0, exc |-> ""]
    /\ arg = <<>>
    /\ ret = <<>>
    /\ csv = <<>>
    /\ datacsv = <<>>
    /\ lastRun = <<>>

NextCsv == UpdateCmdCsv

SpecCsv == InitCsv /\ [][NextCsv]_vars

(***************************************************************************)
(* update_output_csv (lines 812-852) and the re-run of the program on the  *)
(* files an earlier run left.  The log files of a day are chosen by their  *)
(* name (line 43); a line of such a file may carry a timestamp of the next *)
(* day, so a run configured for one day can find commands that start on    *)
(* another.                                                                *)
(***************************************************************************)
hdrData == <<"day", "hour", "time", "time_h", "open", "open_h", "setup", "aosetup",
             "telsetup", "offsets", "wfs", "mode", "magnitude">>

\* str(float(text)/3600), lines 831-832
HoursText(n) == ToString(n) \o "/3600"

\* lines 823-835: the row of one CompleteObs, or the exception a metric raises;
\* wfs, mode and mag are what details() found in the args of the PresetAO
OutputRow(obs) ==
    LET open == total_open_time(obs)
        tel == telescope_overhead(obs)
        off == offsets_overhead(obs)
        preset == obs.cmds[1].args
    IN  IF open.exc # "" THEN Exc(open.exc)
        ELSE Val(<<dayStr(obs.start_time), hourStr(obs.start_time),
                   ToString(total_time(obs)), HoursText(total_time(obs)),
                   ToString(open.v), HoursText(open.v),
                   ToString(setup_duration(obs).v), ToString(ao_setup_overhead(obs)),
                   ToString(tel.v), ToString(off.v),
                   "wfs of " \o preset, "mode of " \o preset, "mag of " \o preset>>)

\* the file after update_output_csv(cmds) run with args.day = day, or the
\* exception that leaves it before the file is written
update_output_csv(file, day, cmds) ==
    LET rows == [i \in 1 .. Len(cmds) |-> OutputRow(cmds[i])]
        raising == {i \in 1 .. Len(cmds) : rows[i].exc # ""}
        others == SelectSeq(file, LAMBDA row : row[1] # day)
        data == SelectSeq(others, LAMBDA row : row[1] # "day")
    IN  IF raising # {}
        THEN Exc(rows[CHOOSE i \in raising : \A j \in raising : i <= j].exc)
        ELSE Val(<<hdrData>> \o SortByDay(data \o [i \in 1 .. Len(cmds) |-> rows[i].v]))

\* detectCompleteObs run to its end on a list it does not raise on
RECURSIVE ObsRun(_)
ObsRun(s) == IF s.i > Len(s.cmds) THEN s.newCmds ELSE ObsRun(ObsIter(s))

\* cmdsByName (lines 682-683)
cmdsByName(cmds, name) == SelectSeq(cmds, LAMBDA x : x.name = name)

\* the CompleteObs list of a night with no observation or with one: an
\* instrument PresetAO, a StartAO closed or not, and a StopAO
ObsBlocks ==
    {<<>>} \cup {<<Block("PresetAO", "roCoordX = 1.5, roCoordY = 0.0", "end"),
                   Block("StartAO", "", c), Block("StopAO", "", "end")>> : c \in {"end", "none"}}

\* a call of update_cmd_csv or update_output_csv: the function, args.day and
\* the command list
Call(f, day, cmds) == [f |-> f, day |-> day, cmds |-> cmds]

CsvRun(call) ==
    /\ pc = "csv"
    /\ st.runs < MaxRuns
    /\ st' = [st EXCEPT !.runs = st.runs + 1, !.call = call]
    /\ UNCHANGED <<pc, stages, raw, mindiff, arg, ret, lastRun>>

\* a run for Days[d] whose commands start on Days[sd]: line 879
RunUpdateCmdCsv ==
    \E d \in 1 .. Len(Days), sd \in 1 .. Len(Days) :
        \E bs \in SeqsUpTo(Blocks({"CenterStar"}, {"end", "none"}), MaxCsvCmds) :
            /\ CsvRun(Call("update_cmd_csv", Days[d], CsvCmds(Days[sd], bs)))
            /\ csv' = update_cmd_csv(csv, Days[d], CsvCmds(Days[sd], bs))
            /\ datacsv' = datacsv

\* line 876, when no metric raises
RunUpdateOutputCsv ==
    \E d \in 1 .. Len(Days), sd \in 1 .. Len(Days), bs \in ObsBlocks :
        LET cmds == cmdsByName(ObsRun(ObsInit(CsvCmds(Days[sd], bs))), "CompleteObs")
        IN  /\ update_output_csv(datacsv, Days[d], cmds).exc = ""
            /\ CsvRun(Call("update_output_csv", Days[d], cmds))
            /\ datacsv' = update_output_csv(datacsv, Days[d], cmds).v
            /\ csv' = csv

\* line 876, when a metric raises: the run ends there, the files as they were
RunUpdateOutputCsvRaise ==
    \E d \in 1 .. Len(Days), sd \in 1 .. Len(Days), bs \in ObsBlocks :
        LET cmds == cmdsByName(ObsRun(ObsInit(CsvCmds(Days[sd], bs))), "CompleteObs")
        IN  /\ update_output_csv(datacsv, Days[d], cmds).exc # ""
            /\ CsvRun(Call("update_output_csv", Days[d], cmds))
            /\ UNCHANGED <<csv, datacsv>>

InitRerun ==
    /\ pc = "csv"
    /\ stages = <<>>
    /\ raw = <<>>
    /\ mindiff = 0
    /\ st = [fn |-> "csv", runs |-> 0, call |-> Call("", "", <<>>), exc |-> ""]
    /\ arg = <<>>
    /\ ret = <<>>
    /\ csv = <<>>
    /\ datacsv = <<>>
    /\ lastRun = <<>>

NextRerun == RunUpdateCmdCsv \/ RunUpdateOutputCsv \/ RunUpdateOutputCsvRaise

SpecRerun == InitRerun /\ [][NextRerun]_vars

(***************************************************************************)
(* detectOffsets applied to its own result, on command lists that hold no  *)
(* Pause, Resume or OffsetXY: no branch of the loop that can raise is      *)
(* taken on such a list.                                                   *)
(***************************************************************************)
PlainNames == {"OffsetZ", "CenterStar"}

InitOffsetsTwice ==
    /\ pc = "detectOffsets"
    /\ stages = <<"detectOffsets">>
    /\ raw = <<>>
    /\ mindiff = 0
    /\ \E bs \in SeqsUpTo(Blocks(PlainNames, {"end", "none"}), MaxPlain) :
          st = OffsetsInit(CmdsOfBlocks(bs))
    /\ arg = <<>>
    /\ ret = <<>>
    /\ csv = <<>>
    /\ datacsv = <<>>
    /\ lastRun = <<>>

NextOffsetsTwice == OffsetsStep \/ OffsetsReturn

SpecOffsetsTwice == InitOffsetsTwice /\ [][NextOffsetsTwice]_vars

(***************************************************************************)
(* detectCompleteObs on the commands of an observation: a PresetAO, then   *)
(* up to MaxObsTail commands that start, stop or cancel.                   *)
(***************************************************************************)
StartNames == {"StartAO", "Start AO"}
StopNames == {"Stop", "StopAO"}

InitObservation ==
    /\ pc = "detectCompleteObs"
    /\ stages = <<>>
    /\ raw = <<>>
    /\ mindiff = 0
    /\ \E p \in Blocks({"PresetAO"}, {"end"}) :
          \E tail \in SeqsUpTo(Blocks(StartNames \cup StopNames \cup {"Cancel"}, {"end", "none"}),
                                  MaxObsTail) :
              st = ObsInit(CmdsOfBlocks(<<p>> \o tail))
    /\ arg = <<>>
    /\ ret = <<>>
    /\ csv = <<>>
    /\ datacsv = <<>>
    /\ lastRun = <<>>

NextObservation == ObsStep \/ ObsRaise \/ ObsReturn

SpecObservation == InitObservation /\ [][NextObservation]_vars

(***************************************************************************)
(* get_AOARB_cmds on its own, on the lines search hands over with mindiff  *)
(* 0: one line per timestamp, by ascending timestamp (line i at T0 + i),   *)
(* each line of any of the kinds the if/elif chain tells apart.            *)
(***************************************************************************)
LineKinds ==
    {[m |-> "start", name |-> n] : n \in {"Pause", "AcquireRefAO", ""}}
    \cup {[m |-> k, name |-> ""] : k \in {"startGLI", "end", "endReady", "exc", "illegal",
                                          "interv", "attr", "attrBad", "other"}}

LinesOfKinds(ks) == [i \in 1 .. Len(ks) |-> RawLine(T0 + i, ks[i].m, ks[i].name, "", FALSE)]

InitExtract ==
    /\ pc = "get_AOARB_cmds"
    /\ stages = <<>>
    /\ raw = <<>>
    /\ mindiff = 0
    /\ \E ks \in SeqsUpTo(LineKinds, MaxLines) : st = ExtractInit(LinesOfKinds(ks))
    /\ arg = <<>>
    /\ ret = <<>>
    /\ csv = <<>>
    /\ datacsv = <<>>
    /\ lastRun = <<>>

NextExtract == ExtractStep \/ ExtractRaise \/ ExtractReturn

SpecExtract == InitExtract /\ [][NextExtract]_vars

(***************************************************************************)
(* detectCompleteObs on an observation with offsets: an instrument         *)
(* PresetAO, a StartAO, up to MaxBracket Pause, Resume or OffsetZ commands *)
(* and a StopAO.  The metrics are then taken of the CompleteObs returned   *)
(* (lines 826-830).                                                        *)
(***************************************************************************)
InitOverhead ==
    /\ pc = "detectCompleteObs"
    /\ stages = <<>>
    /\ raw = <<>>
    /\ mindiff = 0
    /\ \E mid \in SeqsUpTo(Blocks({"Pause", "Resume", "OffsetZ"}, {"end", "none"}), MaxBracket) :
          st = ObsInit(CmdsOfBlocks(
                   <<Block("PresetAO", "roCoordX = 1.5, roCoordY = 0.0", "end"),
                     Block("StartAO", "", "end")>> \o mid \o <<Block("StopAO", "", "end")>>))
    /\ arg = <<>>
    /\ ret = <<>>
    /\ csv = <<>>
    /\ datacsv = <<>>
    /\ lastRun = <<>>

NextOverhead == ObsStep \/ ObsReturn

SpecOverhead == InitOverhead /\ [][NextOverhead]_vars

(***************************************************************************)
(* Properties.                                                             *)
(***************************************************************************)
\* the positions of seq whose command is named name
Named(seq, name) == {i \in 1 .. Len(seq) : seq[i].name = name}

Returned(f) == pc = "done" /\ st.fn = f

\* C1: get_AOARB_cmds never aborts: a line whose processing raises is skipped
\* and the lines after it are still processed, so no exception leaves the
\* function.
C1_ExtractionNeverAborts == ~(pc = "raised" /\ st.fn = "get_AOARB_cmds")

\* C2: the output of detectOffsets without its OffsetSequence and
\* ExposureSequence composites is exactly the input sequence.
C2_OffsetsKeepsEveryCommand ==
    Returned("detectOffsets") =>
        SelectSeq(ret, LAMBDA c : c.name \notin {"OffsetSequence", "ExposureSequence"}) = arg

\* C3: no command that get_AOARB_cmds or a detector of the program run hands
\* on, atomic or composite or listed in a CompleteObs, has an end_time before
\* its start_time when both are set.
IntervalOrdered(c) ==
    c.start_time # None /\ c.end_time # None => c.end_time >= c.start_time

C3_NoInvertedInterval ==
    pc \in {"detectOffsets", "detectAcquires", "detectCompleteObs", "done"} =>
        \A i \in 1 .. Len(ret) :
            /\ IntervalOrdered(ret[i])
            /\ \A j \in 1 .. Len(ret[i].cmds) : IntervalOrdered(ret[i].cmds[j])

\* a finished run whose output holds a timed OffsetSequence and a timed
\* CompleteObs
C3_Witness ==
    /\ pc = "done"
    /\ \E i \in Named(ret, "CompleteObs") : ret[i].end_time # None
    /\ \E i \in Named(ret, "OffsetSequence") : ret[i].end_time # None

\* C4: for mindiff > 0, any two distinct entries search accepted have
\* timestamps at least mindiff apart, whatever the order of the lines.
C4_AcceptedAtLeastMindiffApart ==
    Returned("search") /\ mindiff > 0 =>
        \A a, b \in st.keys : a < b => b - a >= mindiff

\* C5: with mindiff = 0 every line is its own entry of the result, in any
\* order of the timestamps, except a line with the timestamp of the line just
\* before it.
C5_Mindiff0AcceptsEveryLine ==
    Returned("search") /\ mindiff = 0 =>
        \A i \in 1 .. Len(raw) :
            (i = 1 \/ raw[i].t # raw[i - 1].t) => \E j \in 1 .. Len(ret) : ret[j][1] = i

\* C6: on the log Pause (T0 = 100 to 102), OffsetXY(1.0,2.0) (103 to 105),
\* Resume (106 to 108), each request closed by its end marker, the run does
\* not raise and detectOffsets returns exactly one OffsetSequence: from 100 to
\* 108, successful, with the arguments of the OffsetXY.
Scenario1Log ==
    LinesOfBlocks(<<Block("Pause", "", "end"), Block("OffsetXY", "1.0,2.0", "end"),
                    Block("Resume", "", "end")>>, 1)

C6_Scenario1OffsetSequence ==
    raw = Scenario1Log =>
        /\ pc # "raised"
        /\ pc = "detectAcquires" =>
             /\ Cardinality(Named(ret, "OffsetSequence")) = 1
             /\ \A i \in Named(ret, "OffsetSequence") :
                    /\ ret[i].start_time = T0
                    /\ ret[i].end_time = T0 + 8
                    /\ ret[i].success = "True"
                    /\ ret[i].args = "1.0,2.0"

C6_Witness == raw = Scenario1Log /\ pc = "detectAcquires" /\ Named(ret, "OffsetSequence") # {}

\* C7: on an instrument PresetAO, a StartAO and a StopAO, detectCompleteObs
\* emits exactly one CompleteObs: successful, from the start of the PresetAO
\* to the end of the StopAO, with offsets_overhead() = 0 and setup_duration()
\* = StartAO.end_time - PresetAO.start_time.
IsScenario3(cmds) ==
    /\ Len(cmds) = 3
    /\ cmds[1].name = "PresetAO" /\ is_instrument_preset(cmds[1]) = "True"
    /\ cmds[2].name = "StartAO"
    /\ cmds[3].name = "StopAO"

C7_Scenario3CompleteObs ==
    st.fn = "detectCompleteObs" /\ IsScenario3(st.cmds) =>
        /\ pc # "raised"
        /\ pc = "done" =>
             /\ Cardinality(Named(ret, "CompleteObs")) = 1
             /\ \A i \in Named(ret, "CompleteObs") :
                    /\ ret[i].success = "True"
                    /\ ret[i].start_time = arg[1].start_time
                    /\ ret[i].end_time = arg[3].end_time
                    /\ offsets_overhead(ret[i]) = Val(0)
                    /\ setup_duration(ret[i]) = Minus(arg[2].end_time, arg[1].start_time)

\* the scenario with every command timed: the metrics are numbers
C7_Witness ==
    /\ Returned("detectCompleteObs") /\ IsScenario3(arg)
    /\ \A i \in 1 .. 3 : arg[i].end_time # None
    /\ \E i \in Named(ret, "CompleteObs") : setup_duration(ret[i]) = Val(5)

\* C8: an AcquireRefAO directly followed by a command that is neither a known
\* sub-command nor Done puts, right before that command, an Acquire that
\* failed with an error text ending in "Command not completed".
KnownSubCommands == SubCommands \cup {"CheckFlux"}

C8_UnrelatedCommandEmitsFailedAcquire ==
    Returned("detectAcquires") =>
        \A i \in 1 .. Len(arg) - 1 :
            arg[i].name = "AcquireRefAO" /\ arg[i + 1].name \notin KnownSubCommands \cup {"Done"} =>
                \E j \in 2 .. Len(ret) :
                    /\ ret[j] = arg[i + 1]
                    /\ ret[j - 1].name = "Acquire"
                    /\ ret[j - 1].start_time = arg[i].start_time
                    /\ ret[j - 1].success = "False"
                    /\ ret[j - 1].errstr # <<>>
                    /\ ret[j - 1].errstr[Len(ret[j - 1].errstr)] = NotCompleted

\* C9: a PresetAO whose roCoordX and roCoordY are both zero is no instrument
\* preset: is_instrument_preset() is false for it, and detectCompleteObs,
\* when Outside, processes it staying Outside and opening no composite.
ZeroPreset(c) ==
    /\ c.name = "PresetAO"
    /\ FloatOf(RefXText(c.args)) = 0
    /\ FloatOf(RefYText(c.args)) = 0

C9_ZeroPresetOpensNothing ==
    [][(/\ pc = "detectCompleteObs"
        /\ st.i <= Len(st.cmds)
        /\ ZeroPreset(st.cmds[st.i])
        /\ ~st.inPreset /\ ~st.inObs)
       => (/\ is_instrument_preset(st.cmds[st.i]) = "False"
           /\ pc' = "detectCompleteObs"
           /\ ~st'.inPreset /\ ~st'.inObs
           /\ st'.obsCmd = st.obsCmd
           /\ st'.newCmds = Append(st.newCmds, st.cmds[st.i]))]_vars

\* C10: after any calls of update_cmd_csv on one file, the rows of a (day,
\* command name) are exactly the rows of the successful, fully timed commands
\* of the latest call for that day and name, also when that call found none.
RowsFor(file, day, name) == SelectSeq(file, LAMBDA row : row[1] = day /\ row[3] = name)

C10_RowsAreOfLatestRun ==
    \A k \in DOMAIN lastRun : RowsFor(csv, k[1], k[2]) = RowsOfCmds(lastRun[k])

\* C11: running update_cmd_csv or update_output_csv again for the same day
\* with the same commands leaves the file as the first run left it, also when
\* commands start on another day than the configured one.
C11_RerunIsIdempotent ==
    [][(st.runs > 0 /\ st'.call = st.call) => (csv' = csv /\ datacsv' = datacsv)]_vars

\* C12: on a command list with no Pause, Resume or OffsetXY, of any length,
\* detectOffsets applied to its own result returns that result again, and
\* the result holds no composite.
C12_OffsetsIdempotentOnPlainLists ==
    pc = "done" =>
        /\ ret = arg
        /\ Named(ret, "OffsetSequence") \cup Named(ret, "ExposureSequence") = {}

\* C13: every CompleteObs that detectCompleteObs emits as successful lists
\* exactly one command named StartAO or 'Start AO' and exactly one command
\* named Stop or StopAO.
C13_OneStartOneStop ==
    Returned("detectCompleteObs") =>
        \A i \in Named(ret, "CompleteObs") :
            ret[i].success = "True" =>
                /\ Cardinality({j \in 1 .. Len(ret[i].cmds) : ret[i].cmds[j].name \in StartNames}) = 1
                /\ Cardinality({j \in 1 .. Len(ret[i].cmds) : ret[i].cmds[j].name \in StopNames}) = 1

\* C14: detectAcquires drops no acquisition: for every AcquireRefAO of the
\* input the output holds exactly one Acquire with that command's start_time,
\* also when the list ends with the acquisition open, when another
\* AcquireRefAO comes first, or when its Done failed.
C14_NoAcquisitionDropped ==
    Returned("detectAcquires") =>
        \A i \in Named(arg, "AcquireRefAO") :
            Cardinality({j \in Named(ret, "Acquire") :
                            ret[j].start_time = arg[i].start_time}) = 1

\* C15: a line whose timestamp field is absent or malformed does not abort
\* search: the line is skipped and search returns the entries of the other
\* lines.
C15_MalformedLineIsSkipped == ~(pc = "raised" /\ st.fn = "search")

\* C16: once an end marker has closed the current command (end_time set,
\* success true, errstr empty), no line before the next start marker changes
\* its success, errstr or end_time.
ClosedByEnd(c) == c # NoCmd /\ c.end_time # None /\ c.success = "True" /\ c.errstr = <<>>

C16_ClosedCommandIsFinal ==
    [][(/\ pc = "get_AOARB_cmds"
        /\ st.i <= Len(st.lines)
        /\ ClosedByEnd(st.curCmd)
        /\ st.lines[st.i].m # "start"
        /\ pc' = "get_AOARB_cmds")
       => (/\ st'.curCmd.success = st.curCmd.success
           /\ st'.curCmd.errstr = st.curCmd.errstr
           /\ st'.curCmd.end_time = st.curCmd.end_time)]_vars

\* C17: when no line raises, get_AOARB_cmds returns one command per start
\* marker line that has no getLastImage and a name, in line order, each with
\* the name and the timestamp of its line; a command that no end, exception
\* or illegal-command marker followed before the next such start marker or the
\* end of the input has success unknown.
NamedStarts(lines) == SelectSeq(lines, LAMBDA l : l.m = "start" /\ l.name # "")

\* the lines between the start marker at time t and the next start marker
\* that flushes
LinesOfCommand(lines, t) ==
    SelectSeq(lines, LAMBDA l : l.t > t /\ \A x \in 1 .. Len(lines) :
                                  (lines[x].m = "start" /\ lines[x].t > t) => lines[x].t > l.t)

C17_OneCommandPerStartMarker ==
    Returned("get_AOARB_cmds") =>
        /\ Len(ret) = Len(NamedStarts(arg))
        /\ \A i \in 1 .. Len(ret) :
              /\ ret[i].name = NamedStarts(arg)[i].name
              /\ ret[i].start_time = NamedStarts(arg)[i].t
              /\ (\A x \in 1 .. Len(LinesOfCommand(arg, ret[i].start_time)) :
                     LinesOfCommand(arg, ret[i].start_time)[x].m
                         \notin {"end", "endReady", "exc", "illegal"})
                 => ret[i].success = "None"

\* a run that skipped a getLastImage request and a request without a name,
\* flushed a command that was never ended at the next start marker and
\* another at the end of the input
C17_Witness ==
    /\ Returned("get_AOARB_cmds")
    /\ Len(ret) = 2
    /\ ret[1].success = "None" /\ ret[2].success = "None"
    /\ \E i, j \in 1 .. Len(arg) : arg[i].m = "startGLI" /\ arg[j].m = "start" /\ arg[j].name = ""

\* C18: detectOffsets returns normally on every command list, also when a
\* command of a Pause, OffsetXY, Resume triple never got an end marker
\* (success unknown): no exception leaves it.
C18_OffsetsNeverRaises == ~(pc = "raised" /\ st.fn = "detectOffsets")

\* C19: an OffsetSequence built from an incomplete pattern (Pause, OffsetXY
\* without Resume, or Pause followed by neither) has success false whatever
\* the success of its commands; when they all succeeded its error text is
\* "Resume was not sent", respectively "no OffsetXY or Resume".
C19_IncompleteOffsetFails ==
    Returned("detectOffsets") =>
        \A j \in Named(ret, "OffsetSequence") :
            ret[j].resume = 0 =>
                LET n == ret[j].pause
                    withOffset == arg[n + 1].name = "OffsetXY"
                IN  /\ ret[j].success = "False"
                    /\ (withOffset /\ arg[n].success = "True" /\ arg[n + 1].success = "True")
                           => ret[j].errstr = <<"Resume was not sent">>
                    /\ (~withOffset /\ arg[n].success = "True")
                           => ret[j].errstr = <<"no OffsetXY or Resume">>

\* C20: for every Pause of the input, at any position and in a list of any
\* length, the output of detectOffsets holds exactly one OffsetSequence whose
\* pause is that command, placed right before it.
C20_OneOffsetSequencePerPause ==
    Returned("detectOffsets") =>
        \A i \in Named(arg, "Pause") :
            /\ Cardinality({j \in Named(ret, "OffsetSequence") : ret[j].pause = i}) = 1
            /\ \A j \in Named(ret, "OffsetSequence") :
                  ret[j].pause = i => (j < Len(ret) /\ ret[j + 1] = arg[i])

\* C21: for every Resume directly followed by a Pause, detectOffsets emits one
\* ExposureSequence from that Resume to that Pause, whatever the scan matched
\* before: it does not fail when no Pause pattern was matched earlier, and the
\* composite carries no argument text.
C21_ExposureSequencePerResumePause ==
    /\ ~(pc = "raised" /\ st.fn = "detectOffsets" /\ st.exc = "UnboundLocalError")
    /\ Returned("detectOffsets") =>
          \A i \in Named(arg, "Resume") :
              (i < Len(arg) /\ arg[i + 1].name = "Pause") =>
                  /\ Cardinality({j \in Named(ret, "ExposureSequence") :
                                     ret[j].resume = i /\ ret[j].pause = i + 1}) = 1
                  /\ \A j \in Named(ret, "ExposureSequence") : ret[j].resume = i => ret[j].args = ""

\* C22: in detectAcquires a Done closes the window: once a Done was seen in an
\* open window, succeeded or failed, no later command of that window changes
\* the success, errstr or end_time of its Acquire, and a Done that succeeded
\* emits the Acquire right before itself.
C22_DoneClosesWindow ==
    [][(/\ pc = "detectAcquires"
        /\ st.i <= Len(st.cmds)
        /\ pc' = "detectAcquires")
       => (/\ (st.acquireDone /\ st.cmds[st.i].name # "AcquireRefAO")
                 => (/\ st'.acquireCmd.success = st.acquireCmd.success
                     /\ st'.acquireCmd.errstr = st.acquireCmd.errstr
                     /\ st'.acquireCmd.end_time = st.acquireCmd.end_time)
           /\ (st.inAcquire /\ st.cmds[st.i].name = "Done" /\ st.cmds[st.i].success = "True")
                 => st'.newCmds = st.newCmds \o <<st'.acquireCmd, st.cmds[st.i]>>)]_vars

\* C23: a Cancel received while in the preset discards the open composite:
\* every CompleteObs of the output lists a run of consecutive input commands
\* that starts with an instrument PresetAO, has no Cancel before its first
\* StartAO and ends with the Stop or StopAO that the CompleteObs is put right
\* before; so a PresetAO, Cancel, StartAO, StopAO emits nothing.
IsRunOf(c, seq) == \E p \in 1 .. Len(seq) : p + Len(c) - 1 <= Len(seq)
                                            /\ c = SubSeq(seq, p, p + Len(c) - 1)

C23_CancelDiscardsComposite ==
    Returned("detectCompleteObs") =>
        \A j \in Named(ret, "CompleteObs") :
            LET c == ret[j].cmds
            IN  /\ c # <<>> /\ IsRunOf(c, arg)
                /\ c[1].name = "PresetAO" /\ DetailsSetsRef(c[1])
                /\ ret[j].start_time = c[1].start_time
                /\ \E k \in 1 .. Len(c) :
                      /\ c[k].name \in StartNames
                      /\ \A m \in 1 .. k - 1 : c[m].name # "Cancel"
                /\ c[Len(c)].name \in StopNames
                /\ j < Len(ret) /\ ret[j + 1] = c[Len(c)]

\* an instrument PresetAO, a Cancel, a StartAO and a Stop: nothing is emitted
C23_Witness ==
    /\ Returned("detectCompleteObs")
    /\ Len(arg) = 4
    /\ is_instrument_preset(arg[1]) = "True"
    /\ arg[2].name = "Cancel"
    /\ arg[3].name \in StartNames /\ arg[3].success = "True"
    /\ arg[4].name \in StopNames /\ arg[4].success = "True"
    /\ Named(ret, "CompleteObs") = {}

\* C24: offsets_overhead() of every CompleteObs that detectCompleteObs emits
\* is the sum of resume.end_time - pause.start_time over the Pause..Resume
\* bracketings of its commands, a Pause being paired with at most one Resume:
\* a Resume with no Pause before it, or a second Resume after the same Pause,
\* adds nothing and raises nothing.
RECURSIVE BracketSum(_, _, _)
BracketSum(cmds, i, open) ==
    IF i > Len(cmds) THEN 0
    ELSE IF cmds[i].name \in {"PauseAO", "Pause"}
         THEN BracketSum(cmds, i + 1, cmds[i].start_time)
    ELSE IF cmds[i].name \in {"ResumeAO", "Resume"} /\ open # None
         THEN (cmds[i].end_time - open) + BracketSum(cmds, i + 1, None)
    ELSE BracketSum(cmds, i + 1, open)

C24_OffsetsOverheadIsBracketSum ==
    Returned("detectCompleteObs") =>
        \A j \in Named(ret, "CompleteObs") :
            (\A k \in Named(ret[j].cmds, "Resume") : ret[j].cmds[k].end_time # None)
                => offsets_overhead(ret[j]) = Val(BracketSum(ret[j].cmds, 1, None))

\* C25: when lines of search carry the same timestamp, the entry of that
\* timestamp holds the last of them, in the mapping (found2) and in the list
\* returned; stated for mindiff = 0 and lines in time order, when no line is
\* rejected.
LastLineAt(t) == CHOOSE i \in 1 .. Len(raw) : raw[i].t = t /\ \A j \in 1 .. Len(raw) :
                                                               raw[j].t = t => j <= i

C25_LastLineWinsOnCollision ==
    (/\ Returned("search")
     /\ mindiff = 0
     /\ \A i \in 1 .. Len(raw) - 1 : raw[i].t <= raw[i + 1].t) =>
        /\ \A t \in st.keys : st.found2[t] = <<LastLineAt(t)>>
        /\ \A j \in 1 .. Len(ret) : ret[j] = <<LastLineAt(raw[ret[j][1]].t)>>

\* C26: the list get_AOARB_cmds returns is a sequence of non-overlapping
\* intervals in time order: start_time strictly increases along the list and
\* every end_time that is set is at most the start_time of the next command,
\* also for an AcquireRefAO patched by a later ready-for-start end marker.
C26_NonOverlappingIntervals ==
    Returned("get_AOARB_cmds") =>
        \A i \in 1 .. Len(ret) - 1 :
            /\ ret[i].start_time < ret[i + 1].start_time
            /\ ret[i].end_time # None => ret[i].end_time <= ret[i + 1].start_time

\* C26, amended: the same, except that the end_time of an AcquireRefAO may be
\* the time of a ready-for-start end marker that came while it was the last
\* AcquireRefAO started, however many commands later.
PatchedBy(cmds, i, lines) ==
    /\ cmds[i].name = "AcquireRefAO"
    /\ \E x \in 1 .. Len(lines) :
          /\ lines[x].m = "endReady"
          /\ lines[x].t = cmds[i].end_time
          /\ \A k \in Named(cmds, "AcquireRefAO") :
                ~(cmds[k].start_time > cmds[i].start_time /\ cmds[k].start_time < lines[x].t)

C26_NonOverlappingExceptPatched ==
    Returned("get_AOARB_cmds") =>
        \A i \in 1 .. Len(ret) - 1 :
            /\ ret[i].start_time < ret[i + 1].start_time
            /\ ret[i].end_time # None =>
                  \/ ret[i].end_time <= ret[i + 1].start_time
                  \/ PatchedBy(ret, i, arg)

\* a patched AcquireRefAO that overlaps the command after it, which itself
\* ends before the next one starts
C26_Witness ==
    /\ Returned("get_AOARB_cmds")
    /\ Len(ret) = 3
    /\ ret[1].name = "AcquireRefAO" /\ ret[1].end_time # None
    /\ ret[1].end_time > ret[2].start_time
    /\ ret[2].end_time # None

\* C27: for every CompleteObs the program run produces on which the metrics
\* can be computed, 0 <= ao_setup_overhead() <= setup_duration(), so
\* telescope_overhead() >= 0, and total_open_time() >= 0.
C27_OverheadsWithinSetup ==
    Returned("detectCompleteObs") =>
        \A j \in Named(ret, "CompleteObs") :
            (setup_duration(ret[j]).exc = "" /\ total_open_time(ret[j]).exc = "") =>
                /\ 0 <= ao_setup_overhead(ret[j])
                /\ ao_setup_overhead(ret[j]) <= setup_duration(ret[j]).v
                /\ telescope_overhead(ret[j]).v >= 0
                /\ total_open_time(ret[j]).v >= 0

====
